---- MODULE Spec2Model ----
(***************************************************************************)
(* The simulator driver of simulator/src/main.rs: one request read from    *)
(* standard input, processed by main (or by run_local_wasm_replay), and   *)
(* answered on standard output by a serialised SimulationResponse.         *)
(*                                                                         *)
(* Option<T> is modelled as a sequence: <<>> is None and <<x>> is Some(x). *)
(* A formatted message format!("prefix {}", e) is the pair <<prefix, e>>.  *)
(* A base64 string is modelled by what its two decoders do with it: the    *)
(* record [b64_ok, xdr_ok, value] says whether STANDARD.decode succeeds,   *)
(* whether from_xdr succeeds on the bytes, and the record it yields.       *)
(* A network name is the sequence of its characters.                       *)
(***************************************************************************)
EXTENDS Integers, Sequences, FiniteSets, TLC

\* Bounds of the model.
MaxEntries == 2
MaxOps == 1

None == <<>>
Some(x) == <<x>>
IsSome(o) == o # <<>>
Unwrap(o) == o[1]

(***************************************************************************)
(* Characters and String::to_lowercase.                                    *)
(***************************************************************************)
LowerLetters ==
    <<"a", "b", "c", "d", "e", "f", "g", "h", "i", "j", "k", "l", "m",
      "n", "o", "p", "q", "r", "s", "t", "u", "v", "w", "x", "y", "z">>
UpperLetters ==
    <<"A", "B", "C", "D", "E", "F", "G", "H", "I", "J", "K", "L", "M",
      "N", "O", "P", "Q", "R", "S", "T", "U", "V", "W", "X", "Y", "Z">>

char_to_lowercase(c) ==
    IF \E i \in 1..Len(UpperLetters) : UpperLetters[i] = c
    THEN LowerLetters[CHOOSE i \in 1..Len(UpperLetters) : UpperLetters[i] = c]
    ELSE c

char_to_uppercase(c) ==
    IF \E i \in 1..Len(LowerLetters) : LowerLetters[i] = c
    THEN UpperLetters[CHOOSE i \in 1..Len(LowerLetters) : LowerLetters[i] = c]
    ELSE c

to_lowercase(s) == [i \in 1..Len(s) |-> char_to_lowercase(s[i])]

\* The names of the match arms of network_passphrase, as character sequences.
NamePublic == <<"p", "u", "b", "l", "i", "c">>
NameMainnet == <<"m", "a", "i", "n", "n", "e", "t">>
NameTestnet == <<"t", "e", "s", "t", "n", "e", "t">>
NameFuturenet == <<"f", "u", "t", "u", "r", "e", "n", "e", "t">>

PassphrasePublic == "Public Global Stellar Network ; September 2015"
PassphraseTestnet == "Test SDF Network ; September 2015"
PassphraseFuturenet == "Test SDF Future Network ; October 2022"

\* A plausible slip: the name is matched as written, without lower-casing.
network_passphrase_case_sensitive(network) ==
    CASE network = NamePublic \/ network = NameMainnet -> Some(PassphrasePublic)
      [] network = NameTestnet -> Some(PassphraseTestnet)
      [] network = NameFuturenet -> Some(PassphraseFuturenet)
      [] OTHER -> None

network_passphrase(network) ==
    LET n == to_lowercase(network) IN
    CASE n = NamePublic \/ n = NameMainnet -> Some(PassphrasePublic)
      [] n = NameTestnet -> Some(PassphraseTestnet)
      [] n = NameFuturenet -> Some(PassphraseFuturenet)
      [] OTHER -> None

\* Sha256 is modelled as an injective tagging of the hashed bytes.
network_id_from_passphrase(passphrase) == <<"sha256", passphrase>>

(***************************************************************************)
(* Encoded records and the two decoders of the Binary Codec Gateway.       *)
(***************************************************************************)
Encoded(v) == [b64_ok |-> TRUE, xdr_ok |-> TRUE, value |-> v]
BadBase64 == [b64_ok |-> FALSE, xdr_ok |-> FALSE, value |-> None]
BadXdr == [b64_ok |-> TRUE, xdr_ok |-> FALSE, value |-> None]

\* base64::engine::general_purpose::STANDARD.decode(s).is_ok()
base64_decode_ok(s) == s.b64_ok
\* T::from_xdr(&bytes, Limits::none()).is_ok(), for the bytes of s
from_xdr_ok(s) == s.xdr_ok
from_xdr(s) == s.value

\* Operation bodies of a transaction with n operations, in envelope order.
OperationsOf(n) == [i \in 1..n |-> <<"op", i>>]

\* The three variants of TransactionEnvelope.
EnvelopeTx(n) == [type |-> "Tx", operations |-> OperationsOf(n)]
EnvelopeTxV0(n) == [type |-> "TxV0", operations |-> OperationsOf(n)]
EnvelopeTxFeeBump(n) == [type |-> "TxFeeBump", inner_tx |-> EnvelopeTx(n)]

DecodedEnvelopes ==
    UNION {{EnvelopeTx(n), EnvelopeTxV0(n), EnvelopeTxFeeBump(n)} : n \in 0..MaxOps}

EnvelopeStrings == {BadBase64, BadXdr} \cup {Encoded(e) : e \in DecodedEnvelopes}

KeyStrings == {BadBase64, BadXdr, Encoded("LedgerKey")}
EntryStrings == {BadBase64, BadXdr, Encoded("LedgerEntry")}

\* One (key, entry) pair of the ledger_entries map. A pair whose key does not
\* decode is listed once: its entry is never looked at.
EntryPairs ==
    {<<k, e>> \in KeyStrings \X EntryStrings : k.xdr_ok \/ e = Encoded("LedgerEntry")}

\* The ledger_entries map in the order the HashMap iterator yields it.
EntryLists == UNION {[1..n -> EntryPairs] : n \in 0..MaxEntries}

(***************************************************************************)
(* SimulationRequest                                                       *)
(***************************************************************************)
Timestamp == 1738077842
LedgerSeq == 1234

NetworkNames ==
    {NameTestnet, <<"M", "A", "I", "N", "N", "E", "T">>, <<"d", "e", "v", "n", "e", "t">>}

WasmPath == "contract.wasm"
MockArgs == <<"hello", "world">>

RequestsWith(networks, envelopes, entries, wasm_paths, mock_args, profiles, advisors) ==
    [network : networks,
     envelope_xdr : envelopes,
     result_meta_xdr : {"BBBB"},
     ledger_entries : entries,
     timestamp : {None, Some(Timestamp)},
     ledger_sequence : {None, Some(LedgerSeq)},
     wasm_path : wasm_paths,
     mock_args : mock_args,
     profile : profiles,
     enable_optimization_advisor : advisors]

\* Requests of the network path, and requests carrying wasm_path (mock_args is
\* read on that path only).
Requests ==
    RequestsWith({None} \cup {Some(n) : n \in NetworkNames}, EnvelopeStrings,
                 {None} \cup {Some(l) : l \in EntryLists}, {None}, {None},
                 {None, Some(FALSE), Some(TRUE)}, BOOLEAN)
    \cup
    RequestsWith({None}, EnvelopeStrings,
                 {None} \cup {Some(l) : l \in EntryLists}, {Some(WasmPath)},
                 {None, Some(<<>>), Some(MockArgs)},
                 {None, Some(FALSE), Some(TRUE)}, BOOLEAN)

\* What standard input holds: bytes that cannot be read as a string, text
\* that is not a SimulationRequest, or a request.
Unreadable == [kind |-> "unreadable", request |-> None]
Malformed == [kind |-> "malformed", request |-> None]
RequestText(r) == [kind |-> "request", request |-> Some(r)]

Inputs == {Unreadable, Malformed} \cup {RequestText(r) : r \in Requests}

\* Every letter-case variant of a name.
CaseVariants(name) ==
    {[i \in 1..Len(name) |-> IF up[i] THEN char_to_uppercase(name[i]) ELSE name[i]] :
        up \in [1..Len(name) -> BOOLEAN]}

KnownNames == {NamePublic, NameMainnet, NameTestnet, NameFuturenet}

\* Names that are no variant of a known one.
UnknownNames ==
    {<<>>, <<"d", "e", "v", "n", "e", "t">>, <<"m", "a", "i", "n">>,
     <<"m", "a", "i", "n", "n", "e", "t", " ">>, <<"t", "e", "s", "t", "n", "e", "t", "2">>,
     <<"P", "U", "B", "L", "1", "C">>}

AllNetworkNames == UNION {CaseVariants(k) : k \in KnownNames} \cup UnknownNames

\* Inputs for the network resolver: every name above on a request that
\* reaches the host, beside one input for each other path of main.
NetRequests ==
    RequestsWith({Some(n) : n \in AllNetworkNames}, {Encoded(EnvelopeTx(MaxOps))},
                 {None}, {None}, {None}, {None}, {FALSE})
    \cup
    RequestsWith({None}, EnvelopeStrings,
                 {Some(l) : l \in [1..1 -> EntryPairs]}, {None, Some(WasmPath)},
                 {Some(MockArgs)}, {Some(TRUE)}, {TRUE})

NetInputs == {Unreadable, Malformed} \cup {RequestText(r) : r \in NetRequests}

(***************************************************************************)
(* SimulationResponse and its serialisation                                *)
(***************************************************************************)
Response(status, error, events, logs, flamegraph, report, budget) ==
    [status |-> status, error |-> error, events |-> events, logs |-> logs,
     flamegraph |-> flamegraph, optimization_report |-> report,
     budget_usage |-> budget]

\* serde_json::to_string: an Option field is null (None here) or its value
\* wrapped; the two skip_serializing_if fields are left out when None.
to_json(res) ==
    LET base == [status |-> res.status, error |-> res.error,
                 events |-> res.events, logs |-> res.logs,
                 flamegraph |-> res.flamegraph]
        rep == IF IsSome(res.optimization_report)
               THEN ("optimization_report" :> Unwrap(res.optimization_report)) @@ base
               ELSE base
    IN  IF IsSome(res.budget_usage)
        THEN ("budget_usage" :> Unwrap(res.budget_usage)) @@ rep
        ELSE rep

\* A plausible slip: the error shape keeps a budget snapshot.
ErrorResponseWithBudget(msg) ==
    Response("error", Some(msg), <<>>, <<>>, None, None,
             Some([cpu_instructions |-> 0, memory_bytes |-> 0, operations_count |-> 0]))

\* The response built by send_error and by the two inline error branches.
ErrorResponse(msg) == Response("error", Some(msg), <<>>, <<>>, None, None, None)

(***************************************************************************)
(* The execution host (soroban_env_host::Host), as far as main uses it.    *)
(***************************************************************************)
DefaultLedgerInfo ==
    [network_id |-> "default", timestamp |-> 0, sequence_number |-> 0]

\* Host::default(): diagnostics off, default ledger info, nothing consumed.
DefaultHost ==
    [diagnostic_level |-> "None", ledger_info |-> DefaultLedgerInfo,
     cpu_insns |-> 0, mem_bytes |-> 0]

\* The two outcomes of a fallible call into the host, the file system or the
\* renderer. The callee is outside this program, so either may occur; main
\* unwraps, matches or defaults the Result as written at each call site.
CallResults == {"Ok", "Err"}

\* Payloads a panic caught by catch_unwind can carry: a &str, a String, or
\* any other type.
PanicPayloads ==
    {[type |-> "&str", text |-> Some("host aborted")],
     [type |-> "String", text |-> Some("budget exceeded")],
     [type |-> "other", text |-> None]}

\* ts as u64, for the non-negative timestamps of the model.
as_u64(ts) == ts

VARIABLES
    input,                  \* what standard input holds
    pc,                     \* the statement of main about to run
    exit,                   \* "running", "returned" or "panicked"
    request,                \* the parsed SimulationRequest
    envelope,               \* the decoded TransactionEnvelope
    host,                   \* the execution host, once constructed
    next_entry,             \* position of the ledger_entries loop
    loaded_entries_count,
    operations,             \* the operations extracted from the envelope
    result,                 \* what catch_unwind returned
    budget_usage,
    optimization_report,
    flamegraph_svg,
    stdout,                 \* the lines printed to standard output
    stderr,                 \* the lines printed to the diagnostic stream
    calls                   \* how often the engine, advisor and renderer ran

vars ==
    <<input, pc, exit, request, envelope, host, next_entry,
      loaded_entries_count, operations, result, budget_usage,
      optimization_report, flamegraph_svg, stdout, stderr, calls>>

locals ==
    <<request, envelope, host, next_entry, loaded_entries_count, operations,
      result, budget_usage, optimization_report, flamegraph_svg>>

InitWith(inputs) ==
    /\ input \in inputs
    /\ pc = "read_stdin"
    /\ exit = "running"
    /\ request = None
    /\ envelope = None
    /\ host = None
    /\ next_entry = 1
    /\ loaded_entries_count = 0
    /\ operations = <<>>
    /\ result = None
    /\ budget_usage = None
    /\ optimization_report = None
    /\ flamegraph_svg = None
    /\ stdout = <<>>
    /\ stderr = <<>>
    /\ calls = [execute_operations |-> 0, analyze |-> 0, from_reader |-> 0]

Init == InitWith(Inputs)

\* println!("{}", serde_json::to_string(&res).unwrap()); return
PrintAndReturn(res) ==
    /\ stdout' = Append(stdout, to_json(res))
    /\ pc' = "done"
    /\ exit' = "returned"

\* return send_error(msg)
send_error(msg) == PrintAndReturn(ErrorResponse(msg))

\* .unwrap() on an Err of the host: the panic unwinds out of main.
UnwrapPanic ==
    /\ pc' = "done"
    /\ exit' = "panicked"
    /\ stderr' = Append(stderr, <<"thread 'main' panicked", "unwrap on Err">>)
    /\ UNCHANGED stdout

Goto(label) ==
    /\ pc' = label
    /\ UNCHANGED <<exit, stdout, stderr>>

(***************************************************************************)
(* main                                                                    *)
(***************************************************************************)
\* io::stdin().read_to_string(&mut buffer)
ReadStdin ==
    /\ pc = "read_stdin"
    /\ IF input.kind = "unreadable"
       THEN /\ PrintAndReturn(ErrorResponse(<<"Failed to read stdin: ", "io error">>))
            /\ UNCHANGED stderr
       ELSE Goto("parse_request")
    /\ UNCHANGED <<input, locals, calls>>

\* serde_json::from_str(&buffer)
ParseRequest ==
    /\ pc = "parse_request"
    /\ IF input.kind = "malformed"
       THEN /\ PrintAndReturn(ErrorResponse(<<"Invalid JSON: ", "parse error">>))
            /\ UNCHANGED <<stderr, request>>
       ELSE /\ request' = input.request
            /\ Goto("mode_select")
    /\ UNCHANGED <<input, envelope, host, next_entry, loaded_entries_count,
                   operations, result, budget_usage, optimization_report,
                   flamegraph_svg, calls>>

Req == Unwrap(request)

\* if let Some(wasm_path) = &request.wasm_path { return run_local_wasm_replay(..) }
ModeSelect ==
    /\ pc = "mode_select"
    /\ IF IsSome(Req.wasm_path) THEN Goto("replay_read") ELSE Goto("decode_envelope")
    /\ UNCHANGED <<input, locals, calls>>

\* A plausible slip: one message for both failures of the envelope.
envelope_error_unnamed(envelope_xdr) ==
    IF ~base64_decode_ok(envelope_xdr) \/ ~from_xdr_ok(envelope_xdr)
    THEN Some(<<"Failed to parse Envelope XDR: ", "xdr error">>)
    ELSE None

\* What the envelope match returns early with, if it does.
envelope_error(envelope_xdr) ==
    IF ~base64_decode_ok(envelope_xdr)
    THEN Some(<<"Failed to decode Envelope Base64: ", "decode error">>)
    ELSE IF ~from_xdr_ok(envelope_xdr)
    THEN Some(<<"Failed to parse Envelope XDR: ", "xdr error">>)
    ELSE None

\* Decode Envelope XDR
DecodeEnvelope ==
    /\ pc = "decode_envelope"
    /\ IF IsSome(envelope_error(Req.envelope_xdr))
       THEN /\ send_error(Unwrap(envelope_error(Req.envelope_xdr)))
            /\ UNCHANGED <<stderr, envelope>>
       ELSE /\ envelope' = Some(from_xdr(Req.envelope_xdr))
            /\ Goto("init_host")
    /\ UNCHANGED <<input, request, host, next_entry, loaded_entries_count,
                   operations, result, budget_usage, optimization_report,
                   flamegraph_svg, calls>>

\* Host::default(); host.set_diagnostic_level(Debug).unwrap()
InitHost ==
    /\ pc = "init_host"
    /\ \E r \in CallResults :
         IF r = "Ok"
         THEN /\ host' = Some([DefaultHost EXCEPT !.diagnostic_level = "Debug"])
              /\ Goto("set_network")
         ELSE /\ host' = Some(DefaultHost)
              /\ UnwrapPanic
    /\ UNCHANGED <<input, request, envelope, next_entry, loaded_entries_count,
                   operations, result, budget_usage, optimization_report,
                   flamegraph_svg, calls>>

\* The ledger info after the network block, when with_mut_ledger_info runs.
WithNetworkId(ledger_info, passphrase) ==
    [ledger_info EXCEPT !.network_id = network_id_from_passphrase(passphrase)]

\* Set network passphrase / network_id if provided
SetNetwork ==
    /\ pc = "set_network"
    /\ IF IsSome(Req.network) /\ IsSome(network_passphrase(Unwrap(Req.network)))
       THEN \E r \in CallResults :
              IF r = "Ok"
              THEN /\ host' = Some([Unwrap(host) EXCEPT !.ledger_info =
                          WithNetworkId(@, Unwrap(network_passphrase(Unwrap(Req.network))))])
                   /\ Goto("override_ledger_info")
              ELSE /\ UnwrapPanic
                   /\ UNCHANGED host
       ELSE /\ Goto("override_ledger_info")
            /\ UNCHANGED host
    /\ UNCHANGED <<input, request, envelope, next_entry, loaded_entries_count,
                   operations, result, budget_usage, optimization_report,
                   flamegraph_svg, calls>>

\* The closure of the override block.
WithOverrides(ledger_info, timestamp, ledger_sequence) ==
    [ledger_info EXCEPT
       !.timestamp = IF IsSome(timestamp) THEN as_u64(Unwrap(timestamp)) ELSE @,
       !.sequence_number = IF IsSome(ledger_sequence) THEN Unwrap(ledger_sequence) ELSE @]

\* Override Ledger Info if provided
OverrideLedgerInfo ==
    /\ pc = "override_ledger_info"
    /\ IF IsSome(Req.timestamp) \/ IsSome(Req.ledger_sequence)
       THEN \E r \in CallResults :
              IF r = "Ok"
              THEN /\ host' = Some([Unwrap(host) EXCEPT !.ledger_info =
                          WithOverrides(@, Req.timestamp, Req.ledger_sequence)])
                   /\ Goto("populate")
              ELSE /\ UnwrapPanic
                   /\ UNCHANGED host
       ELSE /\ Goto("populate")
            /\ UNCHANGED host
    /\ UNCHANGED <<input, request, envelope, next_entry, loaded_entries_count,
                   operations, result, budget_usage, optimization_report,
                   flamegraph_svg, calls>>

\* A plausible slip: only the key of a pair is checked.
ledger_pair_error_key_only(key_xdr, entry_xdr) ==
    IF ~base64_decode_ok(key_xdr)
    THEN Some(<<"Failed to decode LedgerKey Base64: ", "decode error">>)
    ELSE IF ~from_xdr_ok(key_xdr)
    THEN Some(<<"Failed to parse LedgerKey XDR: ", "xdr error">>)
    ELSE None

\* What one iteration of the ledger_entries loop returns early with, if it does.
ledger_pair_error(key_xdr, entry_xdr) ==
    IF ~base64_decode_ok(key_xdr)
    THEN Some(<<"Failed to decode LedgerKey Base64: ", "decode error">>)
    ELSE IF ~from_xdr_ok(key_xdr)
    THEN Some(<<"Failed to parse LedgerKey XDR: ", "xdr error">>)
    ELSE IF ~base64_decode_ok(entry_xdr)
    THEN Some(<<"Failed to decode LedgerEntry Base64: ", "decode error">>)
    ELSE IF ~from_xdr_ok(entry_xdr)
    THEN Some(<<"Failed to parse LedgerEntry XDR: ", "xdr error">>)
    ELSE None

\* The entries the loop iterates over (none when ledger_entries is absent).
EntriesOf(req) == IF IsSome(req.ledger_entries) THEN Unwrap(req.ledger_entries) ELSE <<>>

\* Populate Host Storage: one iteration of the for loop, or its end.
PopulateHostStorage ==
    /\ pc = "populate"
    /\ IF next_entry <= Len(EntriesOf(Req))
       THEN LET pair == EntriesOf(Req)[next_entry]
                err == ledger_pair_error(pair[1], pair[2])
            IN  IF IsSome(err)
                THEN /\ send_error(Unwrap(err))
                     /\ UNCHANGED <<stderr, next_entry, loaded_entries_count>>
                ELSE /\ loaded_entries_count' = loaded_entries_count + 1
                     /\ next_entry' = next_entry + 1
                     /\ Goto("populate")
       ELSE /\ Goto("extract_operations")
            /\ UNCHANGED <<next_entry, loaded_entries_count>>
    /\ UNCHANGED <<input, request, envelope, host, operations, result,
                   budget_usage, optimization_report, flamegraph_svg, calls>>

\* The match over the envelope variants.
extract_operations(env) ==
    CASE env.type = "Tx" -> env.operations
      [] env.type = "TxV0" -> env.operations
      [] env.type = "TxFeeBump" -> env.inner_tx.operations

\* Extract Operations from Envelope
ExtractOperations ==
    /\ pc = "extract_operations"
    /\ operations' = extract_operations(Unwrap(envelope))
    /\ Goto("execute")
    /\ UNCHANGED <<input, request, envelope, host, next_entry,
                   loaded_entries_count, result, budget_usage,
                   optimization_report, flamegraph_svg, calls>>

\* The logs execute_operations returns: one line per operation, from index 0.
execute_operations(ops) ==
    [i \in 1..Len(ops) |-> <<"Processing operation", i - 1, ops[i]>>]

Ok(v) == [ok |-> TRUE, value |-> v]
Err(e) == [ok |-> FALSE, value |-> e]

\* panic::catch_unwind around execute_operations: the closure returns its
\* logs, or the host invocation it stands for unwinds with a payload that
\* catch_unwind hands back as Err.
Execute ==
    /\ pc = "execute"
    /\ calls' = [calls EXCEPT !.execute_operations = @ + 1]
    /\ \/ result' = Some(Ok(execute_operations(operations)))
       \/ \E payload \in PanicPayloads : result' = Some(Err(payload))
    /\ Goto("budget")
    /\ UNCHANGED <<input, request, envelope, host, next_entry,
                   loaded_entries_count, operations, budget_usage,
                   optimization_report, flamegraph_svg>>

\* Budget and Reporting: the BudgetUsage snapshot.
BudgetSnapshot ==
    /\ pc = "budget"
    /\ budget_usage' = Some([cpu_instructions |-> Unwrap(host).cpu_insns,
                             memory_bytes |-> Unwrap(host).mem_bytes,
                             operations_count |-> Len(operations)])
    /\ Goto("advisor")
    /\ UNCHANGED <<input, request, envelope, host, next_entry,
                   loaded_entries_count, operations, result,
                   optimization_report, flamegraph_svg, calls>>

\* GasOptimizationAdvisor::analyze: an opaque report over the metrics.
analyze(metrics) == <<"OptimizationReport", metrics>>

\* A plausible slip: the advisor runs whatever the flag says.
advisor_always(req) == TRUE

\* Whether the advisor block runs.
advisor_enabled(req) == req.enable_optimization_advisor

Advisor ==
    /\ pc = "advisor"
    /\ IF advisor_enabled(Req)
       THEN /\ optimization_report' =
                 Some(analyze([cpu_instructions |-> Unwrap(budget_usage).cpu_instructions,
                               memory_bytes |-> Unwrap(budget_usage).memory_bytes,
                               total_operations |-> Unwrap(budget_usage).operations_count]))
            /\ calls' = [calls EXCEPT !.analyze = @ + 1]
       ELSE /\ optimization_report' = None
            /\ UNCHANGED calls
    /\ Goto("render")
    /\ UNCHANGED <<input, request, envelope, host, next_entry,
                   loaded_entries_count, operations, result, budget_usage,
                   flamegraph_svg>>

\* A plausible slip: profiling defaults to on when the flag is absent.
profile_default_on(req) == IF IsSome(req.profile) THEN Unwrap(req.profile) ELSE TRUE

\* request.profile.unwrap_or(false)
profile_enabled(req) == IF IsSome(req.profile) THEN Unwrap(req.profile) ELSE FALSE

\* The folded samples handed to the renderer, and the document it returns.
folded_data(cpu_insns, mem_bytes) == <<"Total;CPU", cpu_insns, "Total;Memory", mem_bytes>>
flamegraph_document(folded) == <<"svg", "Soroban Resource Consumption", folded>>

Render ==
    /\ pc = "render"
    /\ IF profile_enabled(Req)
       THEN /\ calls' = [calls EXCEPT !.from_reader = @ + 1]
            /\ \E r \in CallResults :
                 IF r = "Ok"
                 THEN /\ flamegraph_svg' = Some(flamegraph_document(
                             folded_data(Unwrap(budget_usage).cpu_instructions,
                                         Unwrap(budget_usage).memory_bytes)))
                      /\ Goto("respond")
                 ELSE /\ flamegraph_svg' = None
                      /\ stderr' = Append(stderr, <<"Failed to generate flamegraph: ", "render error">>)
                      /\ pc' = "respond"
                      /\ UNCHANGED <<exit, stdout>>
       ELSE /\ flamegraph_svg' = None
            /\ Goto("respond")
            /\ UNCHANGED calls
    /\ UNCHANGED <<input, request, envelope, host, next_entry,
                   loaded_entries_count, operations, result, budget_usage,
                   optimization_report>>

\* A plausible slip: only a &str payload is recognised.
panic_msg_str_only(payload) ==
    IF payload.type = "&str" THEN Unwrap(payload.text) ELSE "Unknown panic"

\* The message recovered from a panic payload.
panic_msg(payload) ==
    IF payload.type = "&str" \/ payload.type = "String"
    THEN Unwrap(payload.text)
    ELSE "Unknown panic"

\* A plausible slip: the fault is logged but the run is reported as a success.
PanicResponseAsSuccess(payload) ==
    Response("success", None, <<>>, <<(<<"PANIC: ", "Unknown panic">>)>>, None, None, None)

\* The response of the Err(panic_info) arm.
PanicResponse(payload) ==
    Response("error", Some(<<"Simulator panicked: ", panic_msg(payload)>>), <<>>,
             <<(<<"PANIC: ", panic_msg(payload)>>)>>, None, None, None)

\* host.get_events(), stringified, or the placeholder when retrieval fails.
events_or_placeholder(r) == IF r = "Ok" THEN <<>> ELSE <<"Failed to retrieve events">>

\* The response of the Ok(exec_logs) arm.
SuccessResponse(events, exec_logs, count, flamegraph, report, budget) ==
    Response("success", None, events,
             <<(<<"Host Initialized with Budget: ", Unwrap(budget)>>),
               (<<"Loaded Ledger Entries", count>>)>> \o exec_logs,
             flamegraph, report, budget)

\* match result { Ok(exec_logs) => .., Err(panic_info) => .. }
Respond ==
    /\ pc = "respond"
    /\ IF Unwrap(result).ok
       THEN \E r \in CallResults :
              PrintAndReturn(SuccessResponse(events_or_placeholder(r),
                                             Unwrap(result).value,
                                             loaded_entries_count, flamegraph_svg,
                                             optimization_report, budget_usage))
       ELSE PrintAndReturn(PanicResponse(Unwrap(result).value))
    /\ UNCHANGED <<input, locals, stderr, calls>>

(***************************************************************************)
(* run_local_wasm_replay                                                   *)
(***************************************************************************)
ReplayBanner ==
    <<(<<"Local WASM Replay Mode">>), (<<"WASM Path: ", WasmPath>>),
      (<<"WARNING: Using Mock State (not mainnet data)">>), (<<>>)>>

\* Read WASM file
ReplayReadWasm ==
    /\ pc = "replay_read"
    /\ \E r \in CallResults :
         IF r = "Ok"
         THEN /\ pc' = "replay_init_host"
              /\ stderr' = stderr \o ReplayBanner \o <<(<<"Loaded WASM file">>)>>
              /\ UNCHANGED <<exit, stdout>>
         ELSE /\ send_error(<<"Failed to read WASM file: ", "io error">>)
              /\ stderr' = stderr \o ReplayBanner
    /\ UNCHANGED <<input, locals, calls>>

\* Host::default(); host.set_diagnostic_level(Debug).unwrap()
ReplayInitHost ==
    /\ pc = "replay_init_host"
    /\ \E r \in CallResults :
         IF r = "Ok"
         THEN /\ host' = Some([DefaultHost EXCEPT !.diagnostic_level = "Debug"])
              /\ pc' = "replay_respond"
              /\ stderr' = Append(stderr, <<"Initialized Host with diagnostic level: Debug">>)
              /\ UNCHANGED <<exit, stdout>>
         ELSE /\ host' = Some(DefaultHost)
              /\ UnwrapPanic
    /\ UNCHANGED <<input, request, envelope, next_entry, loaded_entries_count,
                   operations, result, budget_usage, optimization_report,
                   flamegraph_svg, calls>>

\* The lines printed for mock_args.
mock_args_lines(mock_args) ==
    IF IsSome(mock_args) /\ Len(Unwrap(mock_args)) > 0
    THEN <<(<<"Would invoke function: ", Head(Unwrap(mock_args))>>),
           (<<"With args: ", Tail(Unwrap(mock_args))>>)>>
    ELSE <<>>

\* A plausible slip: the replay response carries a flamegraph of the host budget.
ReplayResponseProfiled(events, h) ==
    Response("success", None, events,
             <<(<<"Host Budget: ", h.cpu_insns, h.mem_bytes>>),
               "Execution: Skipped (Build Issue)">>,
             Some(<<"svg", "Soroban Resource Consumption", h.cpu_insns, h.mem_bytes>>),
             None, None)

\* The response run_local_wasm_replay builds after the skipped execution.
ReplayResponse(events, h) ==
    Response("success", None, events,
             <<(<<"Host Budget: ", h.cpu_insns, h.mem_bytes>>),
               "Execution: Skipped (Build Issue)">>,
             None, None, None)

\* host.get_events() on the replay path, or its own placeholder.
replay_events(r) == IF r = "Ok" THEN <<>> ELSE <<(<<"Failed to retrieve events: ", "host error">>)>>

ReplayRespond ==
    /\ pc = "replay_respond"
    /\ stderr' = stderr \o <<(<<"Full execution temporarily disabled">>)>>
                        \o mock_args_lines(Req.mock_args)
    /\ \E r \in CallResults :
         /\ stdout' = Append(stdout, to_json(ReplayResponse(replay_events(r), Unwrap(host))))
         /\ pc' = "done"
         /\ exit' = "returned"
    /\ UNCHANGED <<input, locals, calls>>

Next ==
    \/ ReadStdin
    \/ ParseRequest
    \/ ModeSelect
    \/ DecodeEnvelope
    \/ InitHost
    \/ SetNetwork
    \/ OverrideLedgerInfo
    \/ PopulateHostStorage
    \/ ExtractOperations
    \/ Execute
    \/ BudgetSnapshot
    \/ Advisor
    \/ Render
    \/ Respond
    \/ ReplayReadWasm
    \/ ReplayInitHost
    \/ ReplayRespond

Spec == Init /\ [][Next]_vars

\* The same program on the inputs of the network resolver.
InitNet == InitWith(NetInputs)
NetSpec == InitNet /\ [][Next]_vars

TypeOK ==
    /\ pc \in {"read_stdin", "parse_request", "mode_select", "decode_envelope",
               "init_host", "set_network", "override_ledger_info", "populate",
               "extract_operations", "execute", "budget", "advisor", "render",
               "respond", "replay_read", "replay_init_host", "replay_respond",
               "done"}
    /\ exit \in {"running", "returned", "panicked"}
    /\ exit = "running" <=> pc # "done"
    /\ next_entry = loaded_entries_count + 1

(***************************************************************************)
(* Properties                                                              *)
(***************************************************************************)
Finished == pc = "done"
HasRequest == input.kind = "request"
InputRequest == Unwrap(input.request)
Responses == {stdout[i] : i \in 1..Len(stdout)}
Faulted == IsSome(result) /\ ~Unwrap(result).ok
ReplayMode == HasRequest /\ IsSome(InputRequest.wasm_path)

\* C1: every run ends having written exactly one JSON response to standard
\* output: never none (no raw fault in place of a response) and never two.
C1_ExactlyOneResponse ==
    /\ Len(stdout) <= 1
    /\ Finished => Len(stdout) = 1 /\ exit = "returned"

\* C2 as stated: every error response has a message and nothing else (events
\* and logs empty, flamegraph null, report and budget omitted), and every
\* success response has a null error, whatever the origin of the error.
C2_ErrorShapeAsStated ==
    \A r \in Responses :
        /\ r.status = "error" =>
              /\ IsSome(r.error)
              /\ r.events = <<>>
              /\ r.logs = <<>>
              /\ r.flamegraph = None
              /\ "optimization_report" \notin DOMAIN r
              /\ "budget_usage" \notin DOMAIN r
        /\ r.status = "success" => r.error = None

\* C2, amended: as stated, except that the error response of an intercepted
\* execution fault carries exactly one log line, "PANIC: <message>"; the
\* logs of every other error response are empty.
C2_ErrorShape ==
    \A r \in Responses :
        /\ r.status \in {"error", "success"}
        /\ r.status = "error" =>
              /\ IsSome(r.error)
              /\ r.events = <<>>
              /\ r.flamegraph = None
              /\ "optimization_report" \notin DOMAIN r
              /\ "budget_usage" \notin DOMAIN r
              /\ IF Faulted
                 THEN /\ Len(r.logs) = 1
                      /\ r.logs[1][1] = "PANIC: "
                      /\ r.logs[1][2] = Unwrap(r.error)[2]
                 ELSE r.logs = <<>>
        /\ r.status = "success" => r.error = None

\* An intercepted fault has been answered with its error response.
C2_Witness ==
    /\ Finished /\ Faulted
    /\ \E r \in Responses : r.status = "error" /\ Len(r.logs) = 1

\* The decoding of a (key, entry) pair fails.
PairFails(pair) == ~pair[1].xdr_ok \/ ~pair[2].xdr_ok
SuppliedEntries == EntriesOf(InputRequest)
SomeEntryFails == \E i \in 1..Len(SuppliedEntries) : PairFails(SuppliedEntries[i])
FirstFailing == CHOOSE i \in 1..Len(SuppliedEntries) :
                    /\ PairFails(SuppliedEntries[i])
                    /\ \A j \in 1..(i - 1) : ~PairFails(SuppliedEntries[j])
KeyMessages == {"Failed to decode LedgerKey Base64: ", "Failed to parse LedgerKey XDR: "}
EntryMessages == {"Failed to decode LedgerEntry Base64: ", "Failed to parse LedgerEntry XDR: "}
\* The message names the record kind that fails first in iteration order.
NamesFailingKind(msg) ==
    IF ~SuppliedEntries[FirstFailing][1].xdr_ok
    THEN msg[1] \in KeyMessages
    ELSE msg[1] \in EntryMessages

\* C3 as stated: whenever a supplied ledger key or entry fails to decode, the
\* run answers with an error naming LedgerKey or LedgerEntry and never
\* executes an operation.
C3_PreloadAsStated ==
    (HasRequest /\ SomeEntryFails) =>
        /\ calls.execute_operations = 0
        /\ Finished =>
              /\ Len(stdout) = 1
              /\ stdout[1].status = "error"
              /\ NamesFailingKind(Unwrap(stdout[1].error))

\* C3, amended: for a request without wasm_path whose envelope decodes, if a
\* supplied key or entry fails to decode then no operation is executed and
\* the response, once written, is an error naming the kind of the record
\* that failed first; operations run only after every entry has decoded.
C3_Preload ==
    /\ (HasRequest /\ ~ReplayMode /\ SomeEntryFails) =>
          /\ calls.execute_operations = 0
          /\ (IsSome(envelope) /\ stdout # <<>>) =>
                /\ stdout[1].status = "error"
                /\ NamesFailingKind(Unwrap(stdout[1].error))
    /\ calls.execute_operations > 0 =>
          /\ ~SomeEntryFails
          /\ loaded_entries_count = Len(SuppliedEntries)

\* A second entry failed after a first one decoded, and the run answered.
C3_Witness ==
    /\ Finished /\ HasRequest /\ ~ReplayMode
    /\ SomeEntryFails /\ loaded_entries_count = 1
    /\ stdout # <<>> /\ stdout[1].status = "error"

\* C4 as stated: with the advisor flag off no response carries an
\* optimization_report and the advisor never runs; with it on every success
\* response carries one.
C4_AdvisorAsStated ==
    HasRequest =>
        IF InputRequest.enable_optimization_advisor
        THEN \A r \in Responses :
                r.status = "success" => "optimization_report" \in DOMAIN r
        ELSE /\ calls.analyze = 0
             /\ \A r \in Responses : "optimization_report" \notin DOMAIN r

\* C4, amended: with the flag on, every success response of a request
\* without wasm_path carries an optimization_report (a Local Replay success
\* carries none); with the flag off, as stated.
C4_Advisor ==
    HasRequest =>
        IF InputRequest.enable_optimization_advisor
        THEN \A r \in Responses :
                r.status = "success" =>
                    ("optimization_report" \in DOMAIN r <=> ~ReplayMode)
        ELSE /\ calls.analyze = 0
             /\ \A r \in Responses : "optimization_report" \notin DOMAIN r

\* Both flag values have produced a success response on the network path.
C4_Witness ==
    /\ Finished /\ HasRequest /\ ~ReplayMode
    /\ \E r \in Responses : r.status = "success"
    /\ calls.analyze = 1

RendererRan == calls.from_reader > 0
ProfileRequested == HasRequest /\ InputRequest.profile = Some(TRUE)

\* C5 as stated: without profile=true no response carries a flamegraph; with
\* it and a renderer that succeeds the response carries a non-empty one; with
\* it and a renderer that fails the response carries none and is a success.
C5_FlamegraphAsStated ==
    \A r \in Responses :
        /\ ~ProfileRequested => r.flamegraph = None
        /\ (ProfileRequested /\ RendererRan /\ IsSome(flamegraph_svg)) =>
              IsSome(r.flamegraph) /\ Unwrap(r.flamegraph) # <<>>
        /\ (ProfileRequested /\ RendererRan /\ ~IsSome(flamegraph_svg)) =>
              r.flamegraph = None /\ r.status = "success"

\* C5, amended: the two profile=true cases hold for a run whose execution
\* did not fault; after an intercepted fault the response is an error with
\* no flamegraph whatever the renderer did.
C5_Flamegraph ==
    \A r \in Responses :
        /\ ~ProfileRequested => r.flamegraph = None /\ ~RendererRan
        /\ (ProfileRequested /\ RendererRan /\ ~Faulted /\ IsSome(flamegraph_svg)) =>
              /\ IsSome(r.flamegraph) /\ Unwrap(r.flamegraph) # <<>>
              /\ r.status = "success"
        /\ (ProfileRequested /\ RendererRan /\ ~Faulted /\ ~IsSome(flamegraph_svg)) =>
              r.flamegraph = None /\ r.status = "success"
        /\ (RendererRan /\ Faulted) => r.flamegraph = None /\ r.status = "error"

\* The renderer failed and the run still answered with a success.
C5_Witness ==
    /\ Finished /\ ProfileRequested /\ RendererRan /\ ~IsSome(flamegraph_svg)
    /\ \E r \in Responses : r.status = "success" /\ r.flamegraph = None

\* C6: a request carrying wasm_path gets a response, success or error, with
\* neither optimization_report nor flamegraph, whatever the two flags say,
\* and neither the advisor nor the renderer runs.
C6_ReplaySkipsReporting ==
    ReplayMode =>
        /\ calls.analyze = 0 /\ calls.from_reader = 0
        /\ \A r \in Responses :
              "optimization_report" \notin DOMAIN r /\ r.flamegraph = None

\* A replay with both flags set has answered with a success.
C6_Witness ==
    /\ Finished /\ ReplayMode
    /\ InputRequest.profile = Some(TRUE) /\ InputRequest.enable_optimization_advisor
    /\ \E r \in Responses : r.status = "success"

Measuring == pc = "budget"
Reporting == pc \in {"advisor", "render"}
EmittedSuccess == \E r \in Responses : r.status = "success"
ExecutedWithoutFault ==
    calls.execute_operations = 1 /\ IsSome(result) /\ Unwrap(result).ok

\* C7 as stated: Measuring, Reporting and the emission of a success response
\* are reached only after Executing has completed without a fault.
C7_StagesAsStated ==
    (Measuring \/ Reporting \/ EmittedSuccess) => ExecutedWithoutFault

\* C7, amended: Measuring and Reporting are reached only after Executing has
\* run, faulted or not; a request without wasm_path gets a success response
\* only after a non-faulted Executing, and a Local Replay success is emitted
\* without any Executing step.
C7_Stages ==
    /\ (Measuring \/ Reporting \/ pc = "respond") =>
          calls.execute_operations = 1 /\ IsSome(result)
    /\ (EmittedSuccess /\ ~ReplayMode) => ExecutedWithoutFault
    /\ (EmittedSuccess /\ ReplayMode) => calls.execute_operations = 0 /\ result = None
    /\ (Finished /\ Faulted) => ~EmittedSuccess

\* Reporting has been entered after a faulted execution.
C7_Witness == Reporting /\ Faulted

EnvelopeNotBase64 == HasRequest /\ ~InputRequest.envelope_xdr.b64_ok

\* C8 as stated: a request whose envelope_xdr is not valid base64 is
\* answered by an error naming the envelope base64 field, whatever its other
\* fields; no host is configured and no operation is executed.
C8_EnvelopeBase64AsStated ==
    EnvelopeNotBase64 =>
        /\ host = None
        /\ calls.execute_operations = 0
        /\ Finished =>
              /\ Len(stdout) = 1
              /\ stdout[1].status = "error"
              /\ Unwrap(stdout[1].error)[1] = "Failed to decode Envelope Base64: "

\* C8, amended: as stated, for requests that carry no wasm_path.
C8_EnvelopeBase64 ==
    (EnvelopeNotBase64 /\ ~ReplayMode) =>
        /\ host = None
        /\ calls.execute_operations = 0
        /\ Finished =>
              /\ Len(stdout) = 1
              /\ stdout[1].status = "error"
              /\ Unwrap(stdout[1].error)[1] = "Failed to decode Envelope Base64: "

\* A request with other fields set and a non-base64 envelope has been answered.
C8_Witness ==
    /\ Finished /\ EnvelopeNotBase64 /\ ~ReplayMode
    /\ IsSome(InputRequest.network) /\ IsSome(InputRequest.ledger_entries)
    /\ InputRequest.profile = Some(TRUE)
    /\ stdout # <<>>

\* The text a panic payload carries, if it carries any.
PayloadText(payload) == IF IsSome(payload.text) THEN Unwrap(payload.text) ELSE "Unknown panic"

\* C9: a fault raised while operations execute is intercepted: the run
\* returns normally with exactly one response, of status "error", whose
\* message is "Simulator panicked: " followed by the fault's message, and no
\* success response is written.
C9_FaultIntercepted ==
    Faulted =>
        /\ exit # "panicked"
        /\ ~EmittedSuccess
        /\ Finished =>
              /\ exit = "returned"
              /\ Len(stdout) = 1
              /\ stdout[1].status = "error"
              /\ stdout[1].error =
                    Some(<<"Simulator panicked: ", PayloadText(Unwrap(result).value)>>)

\* A fault carrying a String message has been answered.
C9_Witness ==
    /\ Finished /\ Faulted
    /\ Unwrap(result).value.type = "String"
    /\ Len(stdout) = 1

IsCaseVariant(n, k) ==
    /\ Len(n) = Len(k)
    /\ \A i \in 1..Len(k) : n[i] = k[i] \/ n[i] = char_to_uppercase(k[i])

\* The passphrase table, by lower-case name.
TablePassphrase(k) ==
    CASE k = NamePublic -> PassphrasePublic
      [] k = NameMainnet -> PassphrasePublic
      [] k = NameTestnet -> PassphraseTestnet
      [] k = NameFuturenet -> PassphraseFuturenet

\* What the claim expects a name to resolve to.
ExpectedPassphrase(n) ==
    IF \E k \in KnownNames : IsCaseVariant(n, k)
    THEN Some(TablePassphrase(CHOOSE k \in KnownNames : IsCaseVariant(n, k)))
    ELSE None

ExpectedOverride ==
    IF HasRequest /\ IsSome(InputRequest.network)
    THEN ExpectedPassphrase(Unwrap(InputRequest.network))
    ELSE None

ExpectedNetworkId ==
    IF IsSome(ExpectedOverride)
    THEN network_id_from_passphrase(Unwrap(ExpectedOverride))
    ELSE DefaultLedgerInfo.network_id

AfterOverrides ==
    pc \in {"populate", "extract_operations", "execute", "budget", "advisor",
            "render", "respond"}

\* The state half of C10: what the name resolves to, and the ledger info
\* right after the network block and after the override block.
C10_LedgerInfo ==
    /\ (HasRequest /\ IsSome(InputRequest.network)) =>
          network_passphrase(Unwrap(InputRequest.network)) = ExpectedOverride
    /\ pc = "override_ledger_info" =>
          Unwrap(host).ledger_info =
              [DefaultLedgerInfo EXCEPT !.network_id = ExpectedNetworkId]
    /\ AfterOverrides =>
          /\ Unwrap(host).ledger_info.network_id = ExpectedNetworkId
          /\ Unwrap(host).ledger_info.timestamp =
                IF IsSome(InputRequest.timestamp)
                THEN Unwrap(InputRequest.timestamp) ELSE DefaultLedgerInfo.timestamp
          /\ Unwrap(host).ledger_info.sequence_number =
                IF IsSome(InputRequest.ledger_sequence)
                THEN Unwrap(InputRequest.ledger_sequence)
                ELSE DefaultLedgerInfo.sequence_number

\* C10: a network name resolves without regard to letter case: a variant of
\* public, mainnet, testnet or futurenet to the passphrase of the lower-case
\* name, any other name to no override. With no override the network block
\* leaves the host as it is and the run goes on; with one, only the network
\* identifier is replaced, and timestamp and sequence number follow their
\* own overrides.
C10_NetworkResolution ==
    [][/\ C10_LedgerInfo'
       /\ (pc = "set_network" /\ ExpectedOverride = None) =>
             /\ pc' = "override_ledger_info"
             /\ host' = host
             /\ stdout' = stdout /\ exit' = exit]_vars

\* An upper-case MAINNET has replaced the network identifier, with the
\* timestamp override still to come.
C10_Witness ==
    /\ pc = "override_ledger_info"
    /\ HasRequest
    /\ InputRequest.network = Some(<<"M", "A", "I", "N", "N", "E", "T">>)
    /\ IsSome(InputRequest.timestamp)
    /\ Unwrap(host).ledger_info.network_id = network_id_from_passphrase(PassphrasePublic)
    /\ Unwrap(host).ledger_info.timestamp = DefaultLedgerInfo.timestamp

====
